---- MODULE Spec2Model ----
(***************************************************************************)
(* A model of specmod/Spectral.py: the Spectrum / Signal / Noise objects,  *)
(* the signal-noise pair SNP with its SNR / bandwidth pipeline, and the    *)
(* event group Spectra.                                                    *)
(*                                                                         *)
(* Numbers.  Amplitudes are positive reals.  An amplitude array is kept    *)
(* exactly, as the array x it was created with and the exponents the       *)
(* operations have accumulated since:                                      *)
(*      amp[i] = x[i]^(2^j) * (2*pi*freq[i])^b * c^g                       *)
(* with c = sampling_rate * len(amp), x[i] a rational <<num, den>>, j an   *)
(* integer and b, g dyadic rationals <<n, k>> = n / 2^k.                   *)
(* Indices fl, fh are 0-based as in the source; sequences are 1-based.     *)
(***************************************************************************)
EXTENDS Integers, Sequences, FiniteSets, TLC

\* ------------------------------------------------------------ arithmetic

Abs(x) == IF x < 0 THEN -x ELSE x

RECURSIVE Pow(_, _)
Pow(b, e) == IF e = 0 THEN 1 ELSE b * Pow(b, e - 1)

RECURSIVE Gcd(_, _)
Gcd(a, b) == IF b = 0 THEN a ELSE Gcd(b, a % b)

Lcm(a, b) == (a * b) \div Gcd(a, b)

\* rationals <<num, den>>, den > 0, in lowest terms
Rat(n, d) == LET g == Gcd(Abs(n), d) IN <<n \div g, d \div g>>

RatAdd(p, q) == Rat(p[1] * q[2] + q[1] * p[2], p[2] * q[2])

RatMul(p, q) == Rat(p[1] * q[1], p[2] * q[2])

RatDiv(p, q) == Rat(p[1] * q[2], p[2] * q[1])

RatLess(p, q) == p[1] * q[2] < q[1] * p[2]

RatOne == <<1, 1>>

\* dyadic rationals <<n, k>> = n / 2^k, k >= 0, n odd unless k = 0
RECURSIVE Dy(_, _)
Dy(n, k) == IF k > 0 /\ n % 2 = 0 THEN Dy(n \div 2, k - 1) ELSE <<n, k>>

DyZero == <<0, 0>>

DyAdd(a, m) == Dy(a[1] + m * Pow(2, a[2]), a[2])

DyHalf(a) == Dy(a[1], a[2] + 1)

DyDouble(a) == Dy(2 * a[1], a[2])

DyIsInt(a) == a[2] = 0

RECURSIVE SeqSum(_)
SeqSum(s) == IF s = <<>> THEN 0 ELSE s[1] + SeqSum(Tail(s))

SeqMax(s) == CHOOSE m \in {s[i] : i \in 1..Len(s)} : \A i \in 1..Len(s) : s[i] <= m

\* Python indexing of a sequence: seq[i], a negative i counting from the end
PyIndex(s, i) == IF i < 0 THEN s[Len(s) + i + 1] ELSE s[i + 1]

\* ------------------------------------------------- SNP class constants

SNR_TOLERENCE == 3

MIN_POINTS == 5

SBANDS == <<<<2, 4>>, <<4, 8>>, <<8, 12>>>>

\* pctl = 0.99, the default of find_optimal_signal_bandwidth
PctlNum == 99

PctlDen == 100

\* the retry count at which find_optimal_signal_bandwidth gives up
TryLimit == 3

\* ------------------------------------------------------- the SNR curve
\* An element of bsnr = signal.amp / noise.amp is the real number
\* q^(2^j) * r^b:  q = x_signal/x_noise, r = freq_signal/freq_noise.
\* Whenever the code compares an element with a number, r = 1 or b = 0
\* (the pipeline runs at construction, b = 0, and after integrate or
\* differentiate only for a pair whose noise was interpolated onto the
\* signal's frequencies).

SnrValue(v) == [q |-> <<v, 1>>, j |-> 0, r |-> RatOne, b |-> DyZero]

\* the sign of e - t for an integer t > 0
SignMinus(e, t) ==
    LET n == e.q[1]
        d == e.q[2]
        diff == IF e.j >= 0
                THEN Pow(n, Pow(2, e.j)) - t * Pow(d, Pow(2, e.j))
                ELSE n - Pow(t, Pow(2, -e.j)) * d
    IN  IF diff > 0 THEN 1 ELSE IF diff < 0 THEN -1 ELSE 0

\* np.sign(bsnr - bsnr_thresh)
SignCurve(bsnr, thresh) == [i \in 1..Len(bsnr) |-> SignMinus(bsnr[i], thresh)]

\* ------------------------------------------- find_optimal_signal_bandwidth
\* ig.cumtrapz of a curve of unit spacing, doubled to stay in the integers:
\* CumTrapz2(s)[i] = 2 * sum_{j <= i} (s[j] + s[j+1]) / 2
RECURSIVE CumTrapz2(_)
CumTrapz2(s) ==
    IF Len(s) < 2 THEN <<>>
    ELSE LET front == CumTrapz2(SubSeq(s, 1, Len(s) - 1))
             last  == s[Len(s) - 1] + s[Len(s)]
         IN  Append(front, (IF front = <<>> THEN 0 ELSE front[Len(front)]) + last)

\* The array inte is kept as a common denominator d > 0 and one entry per
\* bin: a number n/d (k = "num"), minus infinity or NaN.  All divisions by
\* inte.max() are float divisions, which do not raise: x/0 is -inf for
\* x < 0 and NaN for x = 0.
Num(n) == [k |-> "num", n |-> n]

NaN == [k |-> "nan", n |-> 0]

NegInf == [k |-> "-inf", n |-> 0]

\* inte /= inte.max()
Normalise(c2) ==
    LET m == SeqMax(c2)
    IN  IF m > 0 THEN [d |-> m, v |-> [i \in 1..Len(c2) |-> Num(c2[i])]]
        ELSE IF m < 0 THEN [d |-> -m, v |-> [i \in 1..Len(c2) |-> Num(-c2[i])]]
        ELSE [d |-> 1,
              v |-> [i \in 1..Len(c2) |-> IF c2[i] = 0 THEN NaN ELSE NegInf]]

\* Clamp with the clamping line left out
ClampNothing(inte) == inte

\* inte[inte<=0] = -1   (NaN <= 0 is false)
Clamp(inte) ==
    [inte EXCEPT !.v = [i \in 1..Len(inte.v) |->
        IF inte.v[i].k = "-inf" \/ (inte.v[i].k = "num" /\ inte.v[i].n <= 0)
        THEN Num(-inte.d) ELSE inte.v[i]]]

\* np.abs(inte - tn/td), every entry scaled by the positive number d * td
AbsDiff(inte, tn, td) ==
    [i \in 1..Len(inte.v) |->
        IF inte.v[i].k = "nan" THEN NaN
        ELSE Num(Abs(inte.v[i].n * td - tn * inte.d))]

\* ndarray.argmin(): the first NaN if there is one, else the first minimum
ArgMin(a) ==
    LET nans == {i \in 1..Len(a) : a[i].k = "nan"}
        pick(S) == CHOOSE i \in S : \A k \in S : i <= k
        mins == {i \in 1..Len(a) : \A k \in 1..Len(a) : a[i].n <= a[k].n}
    IN  (IF nans # {} THEN pick(nans) ELSE pick(mins)) - 1

\* RetryLoop giving up one retry early
RECURSIVE RetryLoopEarly(_, _, _, _)
RetryLoopEarly(inte, fl, fh, tryCount) ==
    IF fl > fh
    THEN LET inte2 == [inte EXCEPT !.v[fl + 1] = Num(inte.d)]
             fl2   == ArgMin(AbsDiff(inte2, PctlNum - PctlDen, PctlDen))
         IN  IF tryCount + 1 = TryLimit - 1
             THEN [fl |-> fl2, fh |-> fh, tryCount |-> tryCount + 1, warned |-> TRUE]
             ELSE RetryLoopEarly(inte2, fl2, fh, tryCount + 1)
    ELSE [fl |-> fl, fh |-> fh, tryCount |-> tryCount, warned |-> FALSE]

\* while (fl > fh): ... with tryCount retries made so far
RECURSIVE RetryLoop(_, _, _, _)
RetryLoop(inte, fl, fh, tryCount) ==
    IF fl > fh
    THEN LET inte2 == [inte EXCEPT !.v[fl + 1] = Num(inte.d)]
             fl2   == ArgMin(AbsDiff(inte2, PctlNum - PctlDen, PctlDen))
         IN  IF tryCount + 1 = TryLimit
             THEN [fl |-> fl2, fh |-> fh, tryCount |-> tryCount + 1, warned |-> TRUE]
             ELSE RetryLoop(inte2, fl2, fh, tryCount + 1)
    ELSE [fl |-> fl, fh |-> fh, tryCount |-> tryCount, warned |-> FALSE]

\* the search of find_optimal_signal_bandwidth: the indices, the number of
\* retries and whether it gave up
BandwidthSearch(bsnr, bsnr_thresh) ==
    LET inte == Clamp(Normalise(CumTrapz2(SignCurve(bsnr, bsnr_thresh))))
        fh   == ArgMin(AbsDiff(inte, PctlNum, PctlDen)) - 1
        fl   == ArgMin(AbsDiff(inte, PctlDen - PctlNum, PctlDen))
    IN  RetryLoop(inte, fl, fh, 0)

\* ---------------------------------------------------------------- strings
\* A string is the sequence of its character codes, so that str.upper()
\* and str.lower() are computed on it.

Upper(c) == IF c \in 97..122 THEN c - 32 ELSE c

Lower(c) == IF c \in 65..90 THEN c + 32 ELSE c

StrUpper(s) == [i \in 1..Len(s) |-> Upper(s[i])]

StrLower(s) == [i \in 1..Len(s) |-> Lower(s[i])]

\* " ", the class-level default of Spectrum.id and Spectrum.kind
Blank == <<32>>

KindSignal == <<115, 105, 103, 110, 97, 108>>

KindNoise == <<110, 111, 105, 115, 101>>

\* ---------------------------------------------------------------- objects
\* The heap: h.meta maps a reference to a metadata dict, h.spectra and
\* h.pairs map a slot to an object or to NoObj.  Reference ClassMeta is the
\* dict bound to the class attribute Spectrum.meta; a spectrum built from a
\* trace owns the dict at the reference of its own slot.

NoObj == [cls |-> "none"]

ClassMeta == 0

\* a dict holding none of the keys the model tracks
EmptyMeta ==
    [keys |-> {}, sampling_rate |-> 0, lower |-> <<>>, upper |-> <<>>,
     pass_snr |-> FALSE]

\* an amplitude array just computed from a trace
Pristine(a) ==
    [x |-> [i \in 1..Len(a) |-> <<a[i], 1>>], j |-> 0, b |-> DyZero, g |-> DyZero]

\* a Spectrum / Signal / Noise object with every attribute still the
\* class-level default (what __init__ leaves when tr is None)
DefaultSpectrum(cls) ==
    [cls |-> cls, kind |-> Blank, id |-> Blank, event |-> " ",
     freq |-> <<>>, amp |-> Pristine(<<>>), meta |-> ClassMeta,
     pass_snr |-> TRUE, ubfreqs |-> <<>>, diff_freq |-> <<>>]

\* the kind that Signal.__init__ / Noise.__init__ hand to Spectrum.__init__
KindOf(cls, kind) ==
    IF cls = "Signal" THEN KindSignal ELSE IF cls = "Noise" THEN KindNoise ELSE kind

\* Spectrum.__init__ with a trace: the metadata of the trace, and the
\* spectrum that mtspec returns for it (w.freq, w.amp) without its
\* zero-frequency bin.  w.otime is <<>> when the trace has no 'otime'.
SpectrumFromTrace(cls, kind, w, ref) ==
    [cls |-> cls, kind |-> KindOf(cls, kind), id |-> w.id,
     event |-> IF w.otime = <<>> THEN "None" ELSE w.otime[1],
     freq |-> Tail(w.freq), amp |-> Pristine(Tail(w.amp)), meta |-> ref,
     pass_snr |-> TRUE, ubfreqs |-> <<>>, diff_freq |-> <<>>]

MetaFromTrace(w) ==
    [EmptyMeta EXCEPT !.keys = {"sampling_rate"}, !.sampling_rate = w.sampling_rate]

\* Spectrum.__init__ without a trace, then the caller binding the instance
\* attributes id, kind, event, freq and amp (meta stays the class's dict)
SpectrumPopulated(cls, kind, w) ==
    [DefaultSpectrum(cls) EXCEPT
        !.kind = kind, !.id = w.id,
        !.event = IF w.otime = <<>> THEN "None" ELSE w.otime[1],
        !.freq = Tail(w.freq), !.amp = Pristine(Tail(w.amp))]

\* Spectrum.integrate: self.amp /= (2*np.pi*self.freq)
integrate(s) == [s EXCEPT !.amp.b = DyAdd(@, -1)]

\* Spectrum.differentiate: self.amp *= (2*np.pi*self.freq)
differentiate(s) == [s EXCEPT !.amp.b = DyAdd(@, 1)]

\* Spectrum.psd_to_amp: amp = sqrt(amp * sampling_rate * len(amp))
psd_to_amp(s) ==
    [s EXCEPT !.amp.j = @ - 1, !.amp.b = DyHalf(@), !.amp.g = DyHalf(DyAdd(@, 1))]

\* Spectrum.amp_to_psd: amp = amp^2 / (sampling_rate * len(amp))
amp_to_psd(s) ==
    [s EXCEPT !.amp.j = @ + 1, !.amp.b = DyDouble(@), !.amp.g = DyAdd(DyDouble(@), -1)]

\* -------------------------------------------------------------------- SNP

RECURSIVE SetSum(_, _)
SetSum(S, f) ==
    IF S = {} THEN 0
    ELSE LET i == CHOOSE k \in S : TRUE IN f[i] + SetSum(S \ {i}, f)

RECURSIVE SetLcm(_, _)
SetLcm(S, f) ==
    IF S = {} THEN 1
    ELSE LET i == CHOOSE k \in S : TRUE IN Lcm(f[i], SetLcm(S \ {i}, f))

\* check_ids with its two tests in the other order
check_ids_kind_first(signal, noise) ==
    IF StrLower(signal.kind) = StrLower(noise.kind) THEN "ValueError: similar kinds"
    ELSE IF StrUpper(signal.id) # StrUpper(noise.id)
         THEN "ValueError: ID mismatch"
         ELSE "ok"

\* SNP.__check_ids: the exception it raises, or "ok"
check_ids(signal, noise) ==
    IF StrUpper(signal.id) # StrUpper(noise.id) THEN "ValueError: ID mismatch"
    ELSE IF StrLower(signal.kind) = StrLower(noise.kind)
         THEN "ValueError: similar kinds"
         ELSE "ok"

\* np.interp(x, xp, fp) at one point x: linear between the samples, the
\* first / last sample outside them (xp increasing, fp rationals)
Interp1(x, xp, fp) ==
    IF x <= xp[1] THEN fp[1]
    ELSE IF x >= xp[Len(xp)] THEN fp[Len(xp)]
    ELSE LET k == CHOOSE k \in 1..(Len(xp) - 1) : xp[k] <= x /\ x < xp[k + 1]
             slope == RatDiv(RatAdd(fp[k + 1], <<-fp[k][1], fp[k][2]>>),
                             <<xp[k + 1] - xp[k], 1>>)
         IN  RatAdd(fp[k], RatMul(slope, <<x - xp[k], 1>>))

\* SNP.__interp_noise_to_signal (run at construction, on a fresh noise array)
interp_noise_to_signal(signal, noise) ==
    LET smin == CHOOSE m \in {signal.freq[i] : i \in 1..Len(signal.freq)} :
                    \A i \in 1..Len(signal.freq) : m <= signal.freq[i]
        keep(f) == f <= smin
    IN  [noise EXCEPT
            !.amp.x = [i \in 1..Len(signal.freq) |->
                          Interp1(signal.freq[i], noise.freq, noise.amp.x)],
            !.diff_freq = SelectSeq(noise.freq, keep),
            !.freq = signal.freq]

\* signal.amp / noise.amp, for two arrays of one length that carry the same
\* exponents (a pair applies every operation to both of its spectra)
Ratio(signal, noise) ==
    [i \in 1..Len(signal.amp.x) |->
        [q |-> RatDiv(signal.amp.x[i], noise.amp.x[i]), j |-> signal.amp.j,
         r |-> Rat(signal.freq[i], noise.freq[i]), b |-> signal.amp.b]]

\* blw = np.where(self.bsnr >= self.SNR_TOLERENCE)[0]
blw(bsnr) == {i \in 1..Len(bsnr) : SignMinus(bsnr[i], SNR_TOLERENCE) >= 0}

\* the [freq[fl], freq[fh]] that find_optimal_signal_bandwidth returns
Bounds(freq, est) == <<PyIndex(freq, est.fl), PyIndex(freq, est.fh)>>

NoLog ==
    [ran |-> FALSE, coverage |-> FALSE, searched |-> FALSE, tryCount |-> 0,
     warned |-> FALSE, shearer |-> "off"]

\* SNP.__find_bsnr_limits with set_ubfreqs and the search it calls.  The
\* setters exist on a Signal only: on another object they raise
\* AttributeError before anything is written to it.
find_bsnr_limits(h, p) ==
    LET pr   == h.pairs[p]
        sig  == h.spectra[pr.signal]
        cov  == Cardinality(blw(pr.bsnr)) > MIN_POINTS
        est  == BandwidthSearch(pr.bsnr, SNR_TOLERENCE)
        ub   == Bounds(sig.freq, est)
        lg   == IF cov
                THEN [NoLog EXCEPT !.ran = TRUE, !.coverage = TRUE, !.searched = TRUE,
                                   !.tryCount = est.tryCount, !.warned = est.warned]
                ELSE [NoLog EXCEPT !.ran = TRUE]
    IN  IF sig.cls # "Signal"
        THEN [h |-> h, status |-> "AttributeError", log |-> lg]
        ELSE IF ~cov
        THEN [h |-> [h EXCEPT !.spectra[pr.signal].pass_snr = FALSE],
              status |-> "ok", log |-> lg]
        ELSE [h |-> [h EXCEPT
                       !.spectra[pr.signal].pass_snr = IF est.warned THEN FALSE ELSE @,
                       !.spectra[pr.signal].ubfreqs = ub,
                       !.pairs[p].ubfreqs = ub],
              status |-> "ok", log |-> lg]

\* SNP.__update_lims_to_meta: writes into the dict signal.meta refers to
update_lims_to_meta(h, p) ==
    LET sig == h.spectra[h.pairs[p].signal]
    IN  [h EXCEPT !.meta[sig.meta] =
            [@ EXCEPT !.keys = @ \cup {"lower-f-bound", "upper-f-bound", "pass_snr"},
                      !.lower = IF Len(sig.ubfreqs) > 0 THEN <<sig.ubfreqs[1]>> ELSE <<>>,
                      !.upper = IF Len(sig.ubfreqs) > 0 THEN <<sig.ubfreqs[2]>> ELSE <<>>,
                      !.pass_snr = sig.pass_snr]]

\* np.where((freq >= bws[0]) & (freq >= bws[0])): both tests use bws[0]
BandInds(freq, bws) == {i \in 1..Len(freq) : freq[i] >= bws[1] /\ freq[i] >= bws[1]}

\* The values mns[i] < 3 can take for one band, mns[i] being
\* np.mean(signal.amp[inds]) / np.mean(noise.amp[inds]).  No bin in the band:
\* the means are NaN and NaN < 3 is false.  With j = 0 and b an integer of
\* size at most 2 the two sums are computed exactly, scaled by a common
\* positive integer.  Otherwise the sums are irrational: the comparison is
\* decided when every bin of the band is on one side of 3, and left open
\* (either value) when the bins disagree.
BandBelow(signal, noise, bws) ==
    LET inds  == BandInds(signal.freq, bws)
        b     == signal.amp.b
        exact == signal.amp.j = 0 /\ DyIsInt(b) /\ Abs(b[1]) <= 2
                   /\ (b[1] = 0 \/ \A i \in inds : signal.freq[i] = noise.freq[i])
        sden  == [i \in inds |-> signal.amp.x[i][2]]
        nden  == [i \in inds |-> noise.amp.x[i][2]]
        sfrq  == [i \in inds |-> signal.freq[i]]
        D     == Lcm(SetLcm(inds, sden), SetLcm(inds, nden))
        L     == SetLcm(inds, sfrq)
        W(i)  == IF b[1] >= 0 THEN Pow(signal.freq[i], b[1])
                 ELSE Pow(L \div signal.freq[i], -b[1])
        st    == [i \in inds |-> signal.amp.x[i][1] * (D \div signal.amp.x[i][2]) * W(i)]
        nt    == [i \in inds |-> noise.amp.x[i][1] * (D \div noise.amp.x[i][2]) * W(i)]
        bins  == Ratio(signal, noise)
    IN  IF inds = {} THEN {FALSE}
        ELSE IF exact THEN {SetSum(inds, st) < 3 * SetSum(inds, nt)}
        ELSE IF \A i \in inds : SignMinus(bins[i], 3) >= 0 THEN {FALSE}
        ELSE IF \A i \in inds : SignMinus(bins[i], 3) < 0 THEN {TRUE}
        ELSE BOOLEAN

\* SNP.__shearer_test: the heaps it can leave
shearer_test(h, p) ==
    LET pr  == h.pairs[p]
        sig == h.spectra[pr.signal]
        noi == h.spectra[pr.noise]
        mns == {g \in [1..Len(SBANDS) -> BOOLEAN] :
                   \A i \in 1..Len(SBANDS) : g[i] \in BandBelow(sig, noi, SBANDS[i])}
        any == {\E i \in 1..Len(SBANDS) : g[i] : g \in mns}
    IN  {[h EXCEPT !.spectra[pr.signal].pass_snr = ~a] : a \in any}

\* SNP.__get_snr: the outcomes [h, status, log] it can have
get_snr(h, p) ==
    LET pr  == h.pairs[p]
        sig == h.spectra[pr.signal]
        noi == h.spectra[pr.noise]
        h1  == [h EXCEPT !.pairs[p].bsnr = Ratio(sig, noi)]
        lim == find_bsnr_limits(h1, p)
        h3  == update_lims_to_meta(lim.h, p)
    IN  IF Len(sig.amp.x) # Len(noi.amp.x)
        THEN {[h |-> h, status |-> "ValueError: broadcast", log |-> NoLog]}
        ELSE IF lim.status # "ok" THEN {lim}
        ELSE IF ~pr.test_shearer THEN {[h |-> h3, status |-> "ok", log |-> lim.log]}
        ELSE {[h |-> h4, status |-> "ok",
               log |-> [lim.log EXCEPT !.shearer =
                          IF h4.spectra[pr.signal].pass_snr THEN "pass" ELSE "fail"]] :
                 h4 \in shearer_test(h3, p)}

\* SNP.__init__(signal, noise, interpolate_noise, shearer_test) for the
\* spectra in slots s and n, building the pair in slot p: the outcomes it can
\* have.  When it raises, no SNP object comes to exist (slot p stays NoObj);
\* what it did to the two spectra before raising stays done.
SNP_init(h, p, s, n, interpolate_noise, test_s) ==
    LET signal == h.spectra[s]
        noise  == h.spectra[n]
        chk    == check_ids(signal, noise)
        self   == [cls |-> "SNP", signal |-> s, noise |-> n,
                   intrp |-> interpolate_noise, test_shearer |-> test_s,
                   bsnr |-> <<SnrValue(0)>>, ubfreqs |-> <<>>,
                   event |-> signal.event, id |-> signal.id]
        h1     == [h EXCEPT !.pairs[p] = self]
        h2     == IF interpolate_noise
                  THEN [h1 EXCEPT !.spectra[n] = interp_noise_to_signal(signal, noise)]
                  ELSE h1
    IN  IF chk # "ok" THEN {[h |-> h, status |-> chk, log |-> NoLog]}
        ELSE {IF o.status = "ok" THEN o ELSE [o EXCEPT !.h.pairs[p] = NoObj] :
                 o \in get_snr(h2, p)}

\* SNP.integrate: both spectra are integrated; the pipeline is run again
\* only when self.intrp holds
SNP_integrate(h, p) ==
    LET pr == h.pairs[p]
        h1 == [h EXCEPT !.spectra[pr.signal] = integrate(@)]
        h2 == [h1 EXCEPT !.spectra[pr.noise] = integrate(@)]
    IN  IF pr.intrp THEN get_snr(h2, p)
        ELSE {[h |-> h2, status |-> "ok", log |-> NoLog]}

\* SNP.differentiate: likewise
SNP_differentiate(h, p) ==
    LET pr == h.pairs[p]
        h1 == [h EXCEPT !.spectra[pr.signal] = differentiate(@)]
        h2 == [h1 EXCEPT !.spectra[pr.noise] = differentiate(@)]
    IN  IF pr.intrp THEN get_snr(h2, p)
        ELSE {[h |-> h2, status |-> "ok", log |-> NoLog]}

\* whether self.meta['sampling_rate'] can be read in spectrum s
HasRate(h, s) == "sampling_rate" \in h.meta[h.spectra[s].meta].keys

\* SNP.psd_to_amp: the signal is converted, then the noise; reading
\* meta['sampling_rate'] raises KeyError when absent
SNP_psd_to_amp(h, p) ==
    LET pr == h.pairs[p]
        h1 == [h EXCEPT !.spectra[pr.signal] = psd_to_amp(@)]
        h2 == [h1 EXCEPT !.spectra[pr.noise] = psd_to_amp(@)]
    IN  IF ~HasRate(h, pr.signal) THEN {[h |-> h, status |-> "KeyError", log |-> NoLog]}
        ELSE IF ~HasRate(h, pr.noise) THEN {[h |-> h1, status |-> "KeyError", log |-> NoLog]}
        ELSE {[h |-> h2, status |-> "ok", log |-> NoLog]}

\* SNP.amp_to_psd: likewise
SNP_amp_to_psd(h, p) ==
    LET pr == h.pairs[p]
        h1 == [h EXCEPT !.spectra[pr.signal] = amp_to_psd(@)]
        h2 == [h1 EXCEPT !.spectra[pr.noise] = amp_to_psd(@)]
    IN  IF ~HasRate(h, pr.signal) THEN {[h |-> h, status |-> "KeyError", log |-> NoLog]}
        ELSE IF ~HasRate(h, pr.noise) THEN {[h |-> h1, status |-> "KeyError", log |-> NoLog]}
        ELSE {[h |-> h2, status |-> "ok", log |-> NoLog]}

\* SNP.find_optimal_signal_bandwidth(freq, bsnr, bsnr_thresh) called on the
\* pair in slot p: inte.max() of the empty array raises ValueError; giving
\* up clears the pass flag of the pair's signal; the bounds are returned
find_optimal_signal_bandwidth(h, p, freq, bsnr, bsnr_thresh) ==
    LET est == BandwidthSearch(bsnr, bsnr_thresh)
        lg  == [NoLog EXCEPT !.searched = TRUE, !.tryCount = est.tryCount,
                             !.warned = est.warned]
    IN  IF Len(bsnr) < 2
        THEN [h |-> h, status |-> "ValueError: empty", ret |-> <<>>, log |-> NoLog]
        ELSE [h |-> IF est.warned
                    THEN [h EXCEPT !.spectra[h.pairs[p].signal].pass_snr = FALSE]
                    ELSE h,
              status |-> "ok", ret |-> Bounds(freq, est), log |-> lg]

\* ------------------------------------------------------------------ state

\* ---------------------------------------------------------------- Spectra
\* A dict is the sequence of its items in insertion order.

ClassGroup == <<>>

DictKeys(d) == {d[i].key : i \in 1..Len(d)}

DictGet(d, k) == d[CHOOSE i \in 1..Len(d) : d[i].key = k].val

DictSet(d, k, v) ==
    IF k \in DictKeys(d)
    THEN [i \in 1..Len(d) |-> IF d[i].key = k THEN [key |-> k, val |-> v] ELSE d[i]]
    ELSE Append(d, [key |-> k, val |-> v])

\* Spectra.__check_group with only the two ends of the list compared
check_group_ends(h, group) ==
    LET l == [i \in 1..Len(group) |-> h.pairs[group[i]].event]
    IN  IF Len(l) > 0 /\ l[1] # l[Len(l)]
        THEN "ValueError: Events are mismatched"
        ELSE "ok"

\* Spectra.__check_group: l[1:] == l[:-1] on the list of the events
check_group(h, group) ==
    LET l == [i \in 1..Len(group) |-> h.pairs[group[i]].event]
    IN  IF SubSeq(l, 2, Len(l)) # SubSeq(l, 1, Len(l) - 1)
        THEN "ValueError: Events are mismatched"
        ELSE "ok"

\* {g.id: g for g in group}
RECURSIVE GroupDict(_, _)
GroupDict(h, group) ==
    IF group = <<>> THEN <<>>
    ELSE LET n == Len(group)
         IN  DictSet(GroupDict(h, SubSeq(group, 1, n - 1)), h.pairs[group[n]].id, group[n])

\* Spectra.__set_group_dict: the object with its group and event bound, or
\* the exception of group[0]
set_group_dict(h, group) ==
    IF group = <<>>
    THEN [obj |-> NoObj, status |-> "IndexError"]
    ELSE [obj |-> [cls |-> "Spectra", group |-> GroupDict(h, group),
                   event |-> h.pairs[group[1]].event],
          status |-> "ok"]

\* Spectra(group), or Spectra() when given is FALSE: the object built, or
\* the exception raised
Spectra_init(h, given, group) ==
    IF ~given
    THEN [obj |-> [cls |-> "Spectra", group |-> ClassGroup, event |-> "None"],
          status |-> "ok"]
    ELSE IF check_group(h, group) # "ok"
         THEN [obj |-> NoObj, status |-> check_group(h, group)]
         ELSE set_group_dict(h, group)

\* Spectra.get_spectra: the pair found, or nothing (None) after the message
get_spectra(grp, id) ==
    IF StrUpper(id) \in DictKeys(grp.group)
    THEN <<DictGet(grp.group, StrUpper(id))>>
    ELSE <<>>

\* the method of SNP that a bulk method of Spectra calls on each member
PairMethod(name, h, p) ==
    CASE name = "inte"       -> SNP_integrate(h, p)
      [] name = "diff"       -> SNP_differentiate(h, p)
      [] name = "psd_to_amp" -> SNP_psd_to_amp(h, p)
      [] name = "amp_to_psd" -> SNP_amp_to_psd(h, p)

\* for g in self.group.values(): g.<method>(), over the members left to
\* visit; lg collects what the pipeline did in each member
RECURSIVE Spectra_bulk(_, _, _, _)
Spectra_bulk(name, h, lg, members) ==
    IF members = <<>>
    THEN {[h |-> h, log |-> lg, status |-> "ok"]}
    ELSE UNION {
           LET lg2 == IF o.log.ran THEN [lg EXCEPT ![Head(members)] = o.log] ELSE lg
           IN  IF o.status = "ok"
               THEN Spectra_bulk(name, o.h, lg2, Tail(members))
               ELSE {[h |-> o.h, log |-> lg2, status |-> o.status]}
           : o \in PairMethod(name, h, Head(members))}

VARIABLES
    meta,     \* reference -> metadata dict
    spectra,  \* slot -> Spectrum / Signal / Noise object, or NoObj
    pairs,    \* slot -> SNP object, or NoObj
    groups,   \* slot -> Spectra object, or NoObj
    log,      \* pair slot -> what the pair's latest run of the pipeline did
    outcome,  \* the last call and how it ended
    nops,     \* the number of amplitude operations made
    curve     \* the SNR curve a caller holds for the bandwidth search

vars == <<meta, spectra, pairs, groups, log, outcome, nops, curve>>

\* the number of amplitude operations explored after the constructions
MaxOps == 2

PairSlots == 1..2

GroupSlots == 1..1

\* the spectra handed to the pair of slot p
SigSlot(p) == 2 * p - 1

NoiSlot(p) == 2 * p

SpecSlots == {SigSlot(p) : p \in PairSlots} \cup {NoiSlot(p) : p \in PairSlots}

Heap == [meta |-> meta, spectra |-> spectra, pairs |-> pairs]

\* what the last call was (op, on which slot, with which argument), how it
\* ended (status: "ok" or the exception), what it returned, and what the
\* pipeline or the search did in it
Outcome(op, on, arg, status, ret, lg) ==
    [op |-> op, on |-> on, arg |-> arg, status |-> status, ret |-> ret, log |-> lg]

\* the state of a fresh interpreter: the classes with their class-level
\* attributes, and no object
InitHeap ==
    /\ meta = [r \in {ClassMeta} \cup SpecSlots |-> EmptyMeta]
    /\ spectra = [s \in SpecSlots |-> NoObj]
    /\ pairs = [p \in PairSlots |-> NoObj]
    /\ groups = [g \in GroupSlots |-> NoObj]
    /\ log = [p \in PairSlots |-> NoLog]
    /\ outcome = Outcome("none", 0, <<>>, "ok", <<>>, NoLog)
    /\ nops = 0
    /\ curve = <<>>

SetHeap(h) ==
    /\ meta' = h.meta
    /\ spectra' = h.spectra
    /\ pairs' = h.pairs

\* The object a caller builds from window w: Signal(tr), Noise(tr) or
\* Spectrum(kind, tr); or, a.tr being FALSE, the same without a trace and
\* with its attributes bound afterwards.
MakeSpectrum(h, s, a) ==
    IF a.tr
    THEN [h EXCEPT !.spectra[s] = SpectrumFromTrace(a.cls, a.kind, a.w, s),
                   !.meta[s] = MetaFromTrace(a.w)]
    ELSE [h EXCEPT !.spectra[s] = SpectrumPopulated(a.cls, a.kind, a.w)]

\* SNP(<spectrum of a>, <spectrum of b>, interpolate_noise, shearer_test)
NewSNP(p, a, b, interpolate_noise, test_s) ==
    /\ pairs[p] = NoObj
    /\ spectra[SigSlot(p)] = NoObj
    /\ LET h0 == MakeSpectrum(MakeSpectrum(Heap, SigSlot(p), a), NoiSlot(p), b)
       IN  \E o \in SNP_init(h0, p, SigSlot(p), NoiSlot(p), interpolate_noise, test_s) :
             /\ SetHeap(o.h)
             /\ log' = IF o.log.ran THEN [log EXCEPT ![p] = o.log] ELSE log
             /\ outcome' = Outcome("SNP", p, <<>>, o.status, <<>>, o.log)
    /\ UNCHANGED <<groups, nops, curve>>

\* one of the four amplitude methods of the pair in slot p
PairCall(p, name, outcomes) ==
    /\ pairs[p] # NoObj
    /\ nops < MaxOps
    /\ \E o \in outcomes :
         /\ SetHeap(o.h)
         /\ log' = IF o.log.ran THEN [log EXCEPT ![p] = o.log] ELSE log
         /\ outcome' = Outcome(name, p, <<>>, o.status, <<>>, o.log)
    /\ nops' = nops + 1
    /\ UNCHANGED <<groups, curve>>

Integrate(p) == PairCall(p, "integrate", SNP_integrate(Heap, p))

Differentiate(p) == PairCall(p, "differentiate", SNP_differentiate(Heap, p))

PsdToAmp(p) == PairCall(p, "psd_to_amp", SNP_psd_to_amp(Heap, p))

AmpToPsd(p) == PairCall(p, "amp_to_psd", SNP_amp_to_psd(Heap, p))

\* ---------------------------------------------------------------- windows
\* What the traces of the model contain.  A window gives the trace's id, its
\* 'otime' (<<>> when it has none), its sampling rate and the spectrum that
\* mtspec computes for it, the zero-frequency bin first.

IdAZ == <<65, 46, 90>>

Idaz == <<97, 46, 122>>

IdAY == <<65, 46, 89>>

Axis == <<0, 1, 2, 3, 4, 5, 6, 7, 8>>

\* an amplitude array that is a up to bin k and b after it
TwoRun(a, b, k) == [i \in 1..Len(Axis) |-> IF i = 1 THEN 1 ELSE IF i - 1 <= k THEN a ELSE b]

Window(id, otime, amp) ==
    [id |-> id, otime |-> otime, sampling_rate |-> 100, freq |-> Axis, amp |-> amp]

SignalWindows ==
    {Window(IdAZ, <<"e1">>, TwoRun(a, b, k)) :
        a \in {1, 3, 4, 40}, b \in {1, 3, 4, 40}, k \in 0..(Len(Axis) - 2)}

NoiseFlat == Window(IdAZ, <<"e1">>, TwoRun(1, 1, 0))

\* a noise window of another length, on other frequencies
NoiseShort ==
    [NoiseFlat EXCEPT !.freq = <<0, 1, 3, 5, 7>>, !.amp = <<1, 1, 2, 1, 2>>]

\* a noise window of the signal's length on other frequencies
NoiseWide ==
    [NoiseFlat EXCEPT !.freq = <<0, 2, 4, 6, 8, 10, 12, 14, 16>>,
                      !.amp = <<1, 1, 2, 1, 2, 1, 2, 1, 2>>]

NoiseWindows == {NoiseFlat, NoiseShort, NoiseWide}

Arg(cls, kind, tr, w) == [cls |-> cls, kind |-> kind, tr |-> tr, w |-> w]

\* signal and noise windows of one channel, as Signal and Noise objects
ChannelArgs ==
    {<<Arg("Signal", KindSignal, TRUE, ws), Arg("Noise", KindNoise, TRUE, wn)>> :
        ws \in SignalWindows, wn \in NoiseWindows}

\* spectra of every class, with ids that differ in case or in a letter
\* and kinds that differ in case
MixedArg ==
    {Arg(c[1], c[2], TRUE, Window(id, <<"e1">>, TwoRun(c[3], c[3], 0))) :
        c \in {<<"Signal", KindSignal, 40>>, <<"Noise", KindNoise, 1>>,
               <<"Spectrum", <<83, 105, 103, 110, 97, 108>>, 40>>,
               <<"Spectrum", KindNoise, 1>>},
        id \in {IdAZ, Idaz, IdAY}}

MixedArgs == MixedArg \X MixedArg

\* ------------------------------------------------- one pair (Spec)

Init == InitHeap

Next ==
    \/ \E ab \in ChannelArgs \cup MixedArgs, i \in BOOLEAN, t \in BOOLEAN :
          NewSNP(1, ab[1], ab[2], i, t)
    \/ Integrate(1)
    \/ Differentiate(1)
    \/ PsdToAmp(1)
    \/ AmpToPsd(1)

Spec == Init /\ [][Next]_vars

\* ------------------------------------- the bandwidth search (SpecBW)
\* A pair has been built from a clean channel and the caller holds an SNR
\* curve; find_optimal_signal_bandwidth is called on the pair with that
\* curve, on the frequencies 1, 2, ..., len(curve).

\* the longest curve tried with every combination of values
MaxCurveLen == 5

\* the longest step curve tried
MaxStepLen == 21

\* values below, at and above SNR_TOLERENCE
CurveValues == {2, 3, 4}

Curves == UNION {[1..n -> CurveValues] : n \in 1..MaxCurveLen}

\* below the threshold before index k (0-based), above it from k on
StepCurve(n, k) == [i \in 1..n |-> IF i <= k THEN 2 ELSE 4]

StepCurves == {StepCurve(n, k) : n \in 20..MaxStepLen, k \in 0..MaxStepLen}

CleanSignal == Arg("Signal", KindSignal, TRUE, Window(IdAZ, <<"e1">>, TwoRun(40, 40, 0)))

CleanNoise == Arg("Noise", KindNoise, TRUE, NoiseFlat)

InitBW ==
    /\ groups = [g \in GroupSlots |-> NoObj]
    /\ nops = 0
    /\ curve \in Curves \cup StepCurves
    /\ LET h  == [meta |-> [r \in {ClassMeta} \cup SpecSlots |-> EmptyMeta],
                  spectra |-> [s \in SpecSlots |-> NoObj],
                  pairs |-> [p \in PairSlots |-> NoObj]]
           h0 == MakeSpectrum(MakeSpectrum(h, SigSlot(1), CleanSignal), NoiSlot(1), CleanNoise)
       IN  \E o \in SNP_init(h0, 1, SigSlot(1), NoiSlot(1), TRUE, TRUE) :
             /\ meta = o.h.meta
             /\ spectra = o.h.spectra
             /\ pairs = o.h.pairs
             /\ log = [p \in PairSlots |-> IF p = 1 THEN o.log ELSE NoLog]
             /\ outcome = Outcome("SNP", 1, <<>>, o.status, <<>>, o.log)

\* pair.find_optimal_signal_bandwidth(freq, bsnr, pair.SNR_TOLERENCE) for
\* the curve held
Estimate(p) ==
    /\ pairs[p] # NoObj
    /\ LET c    == curve
           freq == [i \in 1..Len(c) |-> i]
           bsnr == [i \in 1..Len(c) |-> SnrValue(c[i])]
           o    == find_optimal_signal_bandwidth(Heap, p, freq, bsnr, SNR_TOLERENCE)
       IN  /\ SetHeap(o.h)
           /\ outcome' = Outcome("find_optimal_signal_bandwidth", p, c, o.status, o.ret, o.log)
    /\ UNCHANGED <<groups, log, nops, curve>>

NextBW == Estimate(1)

SpecBW == InitBW /\ [][NextBW]_vars

\* -------------------------------------- groups of pairs (SpecGroup)
\* Pairs are built from traces and from spectra filled in by hand, put into
\* a group, looked up and operated on, singly and in bulk.

\* the longest list of pairs a group is built from
MaxGroupLen == 3

\* the number of amplitude operations explored on pairs that may be grouped
MaxGroupOps == 1

Loud == TwoRun(40, 40, 0)

Quiet == TwoRun(1, 1, 0)

\* the channels of the groups: (with a trace?, id, otime, signal spectrum)
Channels ==
    {<<TRUE, IdAZ, <<"e1">>, Loud>>, <<TRUE, Idaz, <<"e2">>, Loud>>,
     <<FALSE, IdAZ, <<"e1">>, Loud>>, <<FALSE, IdAY, <<>>, Quiet>>}

ChannelPair(c) ==
    <<Arg("Signal", KindSignal, c[1], Window(c[2], c[3], c[4])),
      Arg("Noise", KindNoise, c[1], Window(c[2], c[3], Quiet))>>

GroupLists ==
    UNION {[1..n -> {p \in PairSlots : pairs[p] # NoObj}] : n \in 0..MaxGroupLen}

\* Spectra(group) for a list of pairs built, or Spectra()
NewSpectra(g, given, group) ==
    /\ groups[g] = NoObj
    /\ LET o == Spectra_init(Heap, given, group)
       IN  /\ groups' = [groups EXCEPT ![g] = o.obj]
           /\ outcome' = Outcome("Spectra", g, IF given THEN <<group>> ELSE <<>>,
                                 o.status, <<>>, NoLog)
    /\ UNCHANGED <<meta, spectra, pairs, log, nops, curve>>

GetSpectra(g, id) ==
    /\ groups[g] # NoObj
    /\ outcome' = Outcome("get_spectra", g, id, "ok", get_spectra(groups[g], id), NoLog)
    /\ UNCHANGED <<meta, spectra, pairs, groups, log, nops, curve>>

\* one of the four bulk methods of the group in slot g
GroupCall(g, name) ==
    /\ groups[g] # NoObj
    /\ nops < MaxGroupOps
    /\ LET d == groups[g].group
       IN  \E o \in Spectra_bulk(name, Heap, log, [i \in 1..Len(d) |-> d[i].val]) :
             /\ SetHeap(o.h)
             /\ log' = o.log
             /\ outcome' = Outcome(name, g, <<>>, o.status, <<>>, NoLog)
    /\ nops' = nops + 1
    /\ UNCHANGED <<groups, curve>>

Inte(g) == GroupCall(g, "inte")

Diff(g) == GroupCall(g, "diff")

GroupPsdToAmp(g) == GroupCall(g, "psd_to_amp")

GroupAmpToPsd(g) == GroupCall(g, "amp_to_psd")

\* a method of one pair, within the operations explored on groups
Single(A) == nops < MaxGroupOps /\ A

NextGroup ==
    \/ \E p \in PairSlots, c \in Channels :
          NewSNP(p, ChannelPair(c)[1], ChannelPair(c)[2], TRUE, TRUE)
    \/ \E g \in GroupSlots : NewSpectra(g, FALSE, <<>>)
    \/ \E g \in GroupSlots, group \in GroupLists : NewSpectra(g, TRUE, group)
    \/ \E g \in GroupSlots, id \in {IdAZ, Idaz, IdAY} : GetSpectra(g, id)
    \/ \E g \in GroupSlots : Inte(g)
    \/ \E g \in GroupSlots : Diff(g)
    \/ \E g \in GroupSlots : GroupPsdToAmp(g)
    \/ \E g \in GroupSlots : GroupAmpToPsd(g)
    \/ \E p \in PairSlots : Single(Integrate(p))
    \/ \E p \in PairSlots : Single(Differentiate(p))

SpecGroup == Init /\ [][NextGroup]_vars

\* ----------------------------------------------------------------- claims

Built(p) == pairs[p] # NoObj

Sig(p) == spectra[pairs[p].signal]

Noi(p) == spectra[pairs[p].noise]

Searched == outcome.op = "find_optimal_signal_bandwidth"

AllBelow(c) == \A i \in 1..Len(c) : c[i] < SNR_TOLERENCE

IsStep(c, k) == c = StepCurve(Len(c), k)

\* the exponent of the prime p in the integer n >= 1
RECURSIVE Val(_, _)
Val(n, p) == IF n % p = 0 THEN 1 + Val(n \div p, p) ELSE 0

RatVal(q, p) == Val(q[1], p) - Val(q[2], p)

\* whether two elements of an SNR curve are the same real number: the
\* exponent of every prime in q^(2^j) * r^b is the same in both
SameReal(e1, e2) ==
    LET nums == {e1.q[1], e1.q[2], e1.r[1], e1.r[2], e2.q[1], e2.q[2], e2.r[1], e2.r[2]}
        top  == CHOOSE m \in nums : \A n \in nums : n <= m
        ks   == {0, -e1.j, -e2.j, e1.b[2], e2.b[2]}
        K    == CHOOSE m \in ks : \A n \in ks : n <= m
        P    == {p \in 2..top : /\ \A d \in 2..(p - 1) : p % d # 0
                                /\ \E n \in nums : n % p = 0}
        V(e, p) == Pow(2, K + e.j) * RatVal(e.q, p)
                     + e.b[1] * Pow(2, K - e.b[2]) * RatVal(e.r, p)
    IN  \A p \in P : V(e1, p) = V(e2, p)

SameCurve(c1, c2) ==
    /\ Len(c1) = Len(c2)
    /\ \A i \in 1..Len(c1) : SameReal(c1[i], c2[i])

\* two characters equal up to the case of a letter
SameLetter(a, b) ==
    \/ a = b
    \/ a \in 65..90 /\ b = a + 32
    \/ a \in 97..122 /\ b = a - 32

SameIgnoringCase(s, t) ==
    /\ Len(s) = Len(t)
    /\ \A i \in 1..Len(s) : SameLetter(s[i], t[i])

\* C1: the signal of a pair passes only if, in the pair's latest run of the
\* pipeline, more than 5 bins of the SNR curve reached the tolerance 3 and,
\* the Shearer test being enabled, no sub-band failed it.
C1_PassOnlyIfBothGatesHeld ==
    \A p \in PairSlots :
        (Built(p) /\ Sig(p).pass_snr) =>
            /\ Cardinality(blw(pairs[p].bsnr)) > 5
            /\ pairs[p].test_shearer => log[p].shearer = "pass"

\* C2: when the bandwidth search of a pair's latest run of the pipeline gave
\* up, the signal does not pass and the bounds of the pair and of its signal
\* are empty.
C2_GivingUpLeavesNoBounds ==
    \A p \in PairSlots :
        (Built(p) /\ log[p].warned) =>
            /\ ~Sig(p).pass_snr
            /\ pairs[p].ubfreqs = <<>>
            /\ Sig(p).ubfreqs = <<>>

\* C3: SNP(signal, noise) raises the ID-mismatch ValueError whenever the ids
\* differ beyond letter case (also when the kinds are equal as well), raises
\* the similar-kinds ValueError whenever the ids match and the kinds are
\* equal, goes past the validation only when the ids match and the kinds
\* differ, and a rejected construction leaves no pair and has touched neither
\* spectrum.
C3_ConstructionValidates ==
    \A p \in PairSlots :
        (outcome.op = "SNP" /\ outcome.on = p) =>
            LET s == spectra[SigSlot(p)]
                n == spectra[NoiSlot(p)]
                idsMatch == SameIgnoringCase(s.id, n.id)
                rejected == outcome.status \in {"ValueError: ID mismatch",
                                                "ValueError: similar kinds"}
            IN  /\ ~idsMatch => outcome.status = "ValueError: ID mismatch"
                /\ (idsMatch /\ s.kind = n.kind) =>
                      outcome.status = "ValueError: similar kinds"
                /\ ~rejected => (idsMatch /\ s.kind # n.kind)
                /\ rejected =>
                      /\ pairs[p] = NoObj
                      /\ log[p] = NoLog
                      /\ s.ubfreqs = <<>> /\ s.pass_snr
                      /\ n.diff_freq = <<>>
                      /\ \A i \in 1..Len(n.amp.x) : n.amp.x[i][2] = 1
                      /\ meta[s.meta].keys = {"sampling_rate"}

\* a construction rejected for its ids although the kinds collide as well
C3_Witness ==
    /\ outcome.op = "SNP"
    /\ outcome.status = "ValueError: ID mismatch"
    /\ spectra[SigSlot(1)].kind = spectra[NoiSlot(1)].kind
    /\ ~SameIgnoringCase(spectra[SigSlot(1)].id, spectra[NoiSlot(1)].id)

\* C5: when integrate() or differentiate() of a pair returns, the pair's
\* bsnr is the ratio of the signal's and the noise's current amplitudes.
C5_RescalingRederivesSnr ==
    (outcome.op \in {"integrate", "differentiate"} /\ outcome.status = "ok") =>
        SameCurve(pairs[outcome.on].bsnr, Ratio(Sig(outcome.on), Noi(outcome.on)))

\* C7: for a curve of two or more bins, all below the threshold, the search
\* makes exactly 3 retries, gives up, leaves the signal of the pair failed
\* and returns two bounds without raising; no search makes more than 3
\* retries.
C7_AllBelowGivesUpAfterThreeRetries ==
    /\ (Searched /\ Len(outcome.arg) >= 2 /\ AllBelow(outcome.arg)) =>
          /\ outcome.status = "ok"
          /\ outcome.log.tryCount = 3
          /\ outcome.log.warned
          /\ ~Sig(outcome.on).pass_snr
          /\ Len(outcome.ret) = 2
    /\ Searched => outcome.log.tryCount <= 3

C7_Witness ==
    /\ Searched
    /\ Len(outcome.arg) >= 2
    /\ AllBelow(outcome.arg)
    /\ outcome.log.tryCount = 3
    /\ ~Sig(outcome.on).pass_snr

\* C8 as stated: for a step curve of 20 or more bins with its step at index
\* k, a search that does not give up returns the low bound frequency[k].
C8_LowBoundIsStep ==
    \A k \in 0..Len(outcome.arg) :
        (Searched /\ Len(outcome.arg) >= 20 /\ IsStep(outcome.arg, k)
           /\ outcome.status = "ok" /\ ~outcome.log.warned) =>
            outcome.ret[1] = k + 1

\* C8 as amended: for a step curve of 20 to 150 bins with its step at index
\* k, a search that does not give up returns the low bound frequency[2k - 1]
\* when 1 <= k <= (n - 2) / 2, and frequency[0] otherwise (k = 0, or the one
\* further position where a single retry succeeds).
C8_LowBoundIsFirstPositiveIntegral ==
    \A k \in 0..Len(outcome.arg) :
        (Searched /\ Len(outcome.arg) >= 20 /\ Len(outcome.arg) <= 150
           /\ IsStep(outcome.arg, k)
           /\ outcome.status = "ok" /\ ~outcome.log.warned) =>
            outcome.ret[1] =
                (IF k >= 1 /\ 2 * k <= Len(outcome.arg) - 2 THEN 2 * k - 1 ELSE 0) + 1

C8_Witness ==
    /\ Searched
    /\ Len(outcome.arg) = 20
    /\ IsStep(outcome.arg, 5)
    /\ ~outcome.log.warned
    /\ outcome.ret[1] = 10

\* C10: after a construction and after integrate() or differentiate(), the
\* signal's metadata record the signal's pass flag and bounds, and the pair's
\* bounds are the signal's.
C10_MetaAgreesWithSignal ==
    (outcome.op \in {"SNP", "integrate", "differentiate"} /\ outcome.status = "ok") =>
        LET p == outcome.on
            m == meta[Sig(p).meta]
        IN  /\ {"lower-f-bound", "upper-f-bound", "pass_snr"} \subseteq m.keys
            /\ m.pass_snr = Sig(p).pass_snr
            /\ m.lower = (IF Sig(p).ubfreqs = <<>> THEN <<>> ELSE <<Sig(p).ubfreqs[1]>>)
            /\ m.upper = (IF Sig(p).ubfreqs = <<>> THEN <<>> ELSE <<Sig(p).ubfreqs[2]>>)
            /\ pairs[p].ubfreqs = Sig(p).ubfreqs

\* the pairs of a list of pairs do not all carry one event
EventMismatch(group) ==
    \E i \in 1..Len(group), k \in 1..Len(group) :
        pairs[group[i]].event # pairs[group[k]].event

Members(grp) == {grp.group[i].val : i \in 1..Len(grp.group)}

\* C4: get_spectra(query) on a group returns the pair whose identifier
\* equals the query ignoring letter case, for every pair of the group that
\* is the only one with such an identifier.
C4_LookupIgnoresCase ==
    \A g \in GroupSlots :
        (outcome.op = "get_spectra" /\ outcome.on = g) =>
            \A p \in Members(groups[g]) :
                (/\ SameIgnoringCase(outcome.arg, pairs[p].id)
                 /\ \A q \in Members(groups[g]) \ {p} :
                        ~SameIgnoringCase(pairs[q].id, pairs[p].id))
                    => outcome.ret = <<p>>

\* C6: Spectra(list) raises the event-mismatch ValueError, and builds no
\* group, whenever two pairs anywhere in the list differ in their event; a
\* group that exists holds the pairs of its list, each with the group's
\* event, also after the bulk methods; and once built a group's membership
\* never changes.
C6_GroupHasOneEvent ==
    /\ [](/\ (outcome.op = "Spectra" /\ outcome.arg # <<>>
                 /\ EventMismatch(outcome.arg[1])) =>
                 /\ outcome.status = "ValueError: Events are mismatched"
                 /\ groups[outcome.on] = NoObj
          /\ (outcome.op = "Spectra" /\ outcome.arg # <<>>
                 /\ outcome.status = "ok") =>
                 /\ groups[outcome.on] # NoObj
                 /\ \A i \in 1..Len(outcome.arg[1]) :
                        \E q \in Members(groups[outcome.on]) :
                            pairs[q].id = pairs[outcome.arg[1][i]].id
                 /\ Members(groups[outcome.on]) \subseteq
                        {outcome.arg[1][i] : i \in 1..Len(outcome.arg[1])}
          /\ \A g \in GroupSlots :
                 groups[g] # NoObj =>
                     \A p \in Members(groups[g]) : pairs[p].event = groups[g].event)
    /\ [][\A g \in GroupSlots : groups[g] # NoObj => groups'[g] = groups[g]]_vars

\* a list rejected although its first and last pairs carry one event
C6_Witness ==
    /\ outcome.op = "Spectra"
    /\ outcome.arg # <<>>
    /\ Len(outcome.arg[1]) = 3
    /\ pairs[outcome.arg[1][1]].event = pairs[outcome.arg[1][3]].event
    /\ pairs[outcome.arg[1][1]].event # pairs[outcome.arg[1][2]].event
    /\ outcome.status = "ValueError: Events are mismatched"
    /\ groups[outcome.on] = NoObj

\* C9: constructing a pair, or calling one of its methods, changes nothing
\* that can be seen of any spectrum outside the pair (its attributes and the
\* content of its metadata), of any other pair or of any group.
C9_NothingShared ==
    [][outcome'.op \in {"SNP", "integrate", "differentiate", "psd_to_amp", "amp_to_psd"} =>
          LET p == outcome'.on
          IN  /\ \A s \in SpecSlots \ {SigSlot(p), NoiSlot(p)} :
                     spectra[s] # NoObj =>
                         /\ spectra'[s] = spectra[s]
                         /\ meta'[spectra[s].meta] = meta[spectra[s].meta]
              /\ \A q \in PairSlots \ {p} : pairs'[q] = pairs[q]
              /\ groups' = groups]_vars

====
